---- MODULE Spec2Model ----
(***************************************************************************)
(* A model of utils/vexos_dl.py: the VEXos firmware downloader.            *)
(*                                                                         *)
(* Strings are sequences of one-character strings, so that split,          *)
(* startswith, concatenation and Python's string comparison are computed   *)
(* as the interpreter computes them.  The disk holds the download          *)
(* artifact "vexos.vexos" and the install target directory "vexos".        *)
(***************************************************************************)
EXTENDS Integers, Sequences, FiniteSets, TLC

VARIABLES
    argv,               \* sys.argv[1:] of the current process
    pc,                 \* position of the current process in main/install_vexos
    force,              \* install_vexos: force
    version,            \* install_vexos: version (None or a token)
    installed_version,  \* install_vexos: installed_version
    compared,           \* is_outdated was evaluated by this run
    outdated,           \* the value is_outdated returned
    artifact,           \* the file vexos.vexos
    target,             \* the directory vexos
    outcome,            \* how the process ended
    error,              \* the exception that ended it, if any
    steps,              \* the mutating steps this run entered, in order
    response,           \* what the artifact server answered to this run's fetch
    target0,            \* the directory vexos when the process started
    artifact0,          \* the file vexos.vexos when the process started
    runs,               \* number of processes started so far
    faulted,            \* a call to the disk or the network failed in this run
    last                \* how the previous process ended

vars == <<argv, pc, force, version, installed_version, compared, outdated,
          artifact, target, outcome, error, steps, response, target0,
          artifact0, runs, faulted, last>>

-----------------------------------------------------------------------------
(* Bounds *)

MaxRuns == 2

-----------------------------------------------------------------------------
(* Strings *)

None == <<>>

\* the characters in use, in code point order
Alphabet == <<"-", ".", "0", "1", "2", "3", "4", "5", "6", "7", "8", "9",
              "E", "O", "S", "V", "X", "_", "a", "c", "e", "f", "h", "i", "l",
              "n", "o", "p", "r", "s", "v", "{", "}">>

Ord(c) == CHOOSE i \in 1..Len(Alphabet) : Alphabet[i] = c

RECURSIVE StrLess(_, _)
StrLess(a, b) ==
    IF a = <<>> THEN b # <<>>
    ELSE IF b = <<>> THEN FALSE
    ELSE IF Head(a) = Head(b) THEN StrLess(Tail(a), Tail(b))
    ELSE Ord(Head(a)) < Ord(Head(b))

StrGreater(a, b) == StrLess(b, a)

RECURSIVE Split(_, _)
Split(s, sep) ==
    IF s = <<>> THEN << <<>> >>
    ELSE LET rest == Split(Tail(s), sep)
         IN  IF Head(s) = sep
             THEN << <<>> >> \o rest
             ELSE << <<Head(s)>> \o Head(rest) >> \o Tail(rest)

StartsWith(s, p) == Len(s) >= Len(p) /\ SubSeq(s, 1, Len(p)) = p

-----------------------------------------------------------------------------
(* Versions and tokens *)

VEXOS == <<"V", "E", "X", "O", "S">>
V5 == <<"V", "5">>
CatalogPrefix == <<"V", "E", "X", "O", "S", "_", "V", "5", "_">>

\* the token PREFIX_PLATFORM_a_b_c_d
Token(family, platform, a, b, c, d) ==
    family \o <<"_">> \o platform \o <<"_">> \o a \o <<"_">> \o b
           \o <<"_">> \o c \o <<"_">> \o d

T_9_0_0_0 == Token(VEXOS, V5, <<"9">>, <<"0">>, <<"0">>, <<"0">>)
T_9_0_0_1 == Token(VEXOS, V5, <<"9">>, <<"0">>, <<"0">>, <<"1">>)
T_10_0_0_0 == Token(VEXOS, V5, <<"1", "0">>, <<"0">>, <<"0">>, <<"0">>)

\* tokens the artifact server holds a firmware archive for
ServerTokens == {T_9_0_0_0, T_9_0_0_1, T_10_0_0_0}

\* five fields / wrong platform / a field that is no number
T_short == VEXOS \o <<"_">> \o V5 \o <<"_", "9", "_", "0", "_", "0">>
T_platform == Token(VEXOS, <<"V", "4">>, <<"9">>, <<"0">>, <<"0">>, <<"0">>)
T_alpha == Token(VEXOS, V5, <<"a">>, <<"0">>, <<"0">>, <<"0">>)

MalformedTokens == {T_short, T_platform, T_alpha}

\* vexos_to_semver: the three format checks
vexos_to_semver_raises(v) ==
    LET version_split == Split(v, "_")
    IN  \/ Len(version_split) # 6
        \/ version_split[1] # VEXOS
        \/ version_split[2] # V5

\* vexos_to_semver: the value returned when no check raises
vexos_to_semver(v) ==
    LET version_split == Split(v, "_")
    IN  version_split[3] \o <<".">> \o version_split[4] \o <<".">>
            \o version_split[5] \o <<".">> \o version_split[6]

\* is_outdated mutated to answer True when all four components are equal
is_outdated_or_same(current, latest) ==
    LET current_semver == Split(current, ".")
        latest_semver == Split(vexos_to_semver(latest), ".")
    IN  IF StrGreater(current_semver[1], latest_semver[1]) THEN FALSE
        ELSE IF StrLess(current_semver[1], latest_semver[1]) THEN TRUE
        ELSE IF StrGreater(current_semver[2], latest_semver[2]) THEN FALSE
        ELSE IF StrLess(current_semver[2], latest_semver[2]) THEN TRUE
        ELSE IF StrGreater(current_semver[3], latest_semver[3]) THEN FALSE
        ELSE IF StrLess(current_semver[3], latest_semver[3]) THEN TRUE
        ELSE IF StrGreater(current_semver[4], latest_semver[4]) THEN FALSE
        ELSE TRUE

\* is_outdated: the components are compared as Python compares strings
is_outdated(current, latest) ==
    LET current_semver == Split(current, ".")
        latest_semver == Split(vexos_to_semver(latest), ".")
    IN  IF StrGreater(current_semver[1], latest_semver[1]) THEN FALSE
        ELSE IF StrLess(current_semver[1], latest_semver[1]) THEN TRUE
        ELSE IF StrGreater(current_semver[2], latest_semver[2]) THEN FALSE
        ELSE IF StrLess(current_semver[2], latest_semver[2]) THEN TRUE
        ELSE IF StrGreater(current_semver[3], latest_semver[3]) THEN FALSE
        ELSE IF StrLess(current_semver[3], latest_semver[3]) THEN TRUE
        ELSE IF StrGreater(current_semver[4], latest_semver[4]) THEN FALSE
        ELSE IF StrLess(current_semver[4], latest_semver[4]) THEN TRUE
        ELSE FALSE

-----------------------------------------------------------------------------
(* The disk *)

\* file contents: a manifest is modelled by the value of its "version" key,
\* or by its text when it has none
Absent == <<>>
BadJson == <<"{">>
NoKey == <<"{", "}">>

NoTarget ==
    [exists |-> FALSE, manifest |-> Absent, boot |-> Absent,
     sub |-> FALSE, sub_manifest |-> Absent, sub_boot |-> Absent]

\* an installed firmware tree: manifest.json and the firmware image
Installed(m, b) ==
    [exists |-> TRUE, manifest |-> m, boot |-> b,
     sub |-> FALSE, sub_manifest |-> Absent, sub_boot |-> Absent]

NoArtifact == [kind |-> "none", of |-> None]
Archive(tok) == [kind |-> "zip", of |-> tok]
ErrorBody(tok) == [kind |-> "junk", of |-> tok]
Truncated(tok) == [kind |-> "partial", of |-> tok]

Keep(content) == {content, Absent}

\* shutil.rmtree("vexos"): the trees it can leave and whether it raised OSError
rmtree(t) ==
    IF ~t.exists
    THEN {[t |-> t, raised |-> TRUE]}
    ELSE {[t |-> NoTarget, raised |-> FALSE]}
         \cup {[t |-> [exists |-> TRUE, manifest |-> m, boot |-> b, sub |-> s,
                       sub_manifest |-> sm, sub_boot |-> sb],
                raised |-> TRUE] :
                  <<m, b, s, sm, sb>> \in
                    {x \in Keep(t.manifest) \X Keep(t.boot) \X {t.sub, FALSE}
                            \X Keep(t.sub_manifest) \X Keep(t.sub_boot) :
                       ~x[3] => (x[4] = Absent /\ x[5] = Absent)}}

\* shutil.unpack_archive("vexos.vexos", "vexos", "zip"): the archive of a
\* token holds one top-level directory with the manifest of that version and
\* the firmware image; anything else is no zip file
unpack_archive(a, t) ==
    IF a.kind # "zip"
    THEN {[t |-> t, raised |-> TRUE]}
    ELSE LET v == vexos_to_semver(a.of)
         IN  {[t |-> [t EXCEPT !.exists = TRUE, !.sub = TRUE,
                               !.sub_manifest = v, !.sub_boot = v],
               raised |-> FALSE],
              [t |-> t, raised |-> TRUE]}
             \cup {[t |-> [t EXCEPT !.exists = TRUE, !.sub = TRUE,
                                    !.sub_manifest = sm, !.sub_boot = sb],
                    raised |-> TRUE] :
                      <<sm, sb>> \in {<<t.sub_manifest, t.sub_boot>>,
                                      <<v, t.sub_boot>>,
                                      <<t.sub_manifest, v>>}}

\* os.listdir("vexos"): the entries of the target directory
listdir(t) ==
    (IF t.manifest # Absent THEN {"manifest.json"} ELSE {})
    \cup (IF t.boot # Absent THEN {"boot.bin"} ELSE {})
    \cup (IF t.sub THEN {"subfolder"} ELSE {})

\* os.listdir(vexos_subfolder_path): the entries of the nested directory
listdir_sub(t) ==
    (IF t.sub_manifest # Absent THEN {"manifest.json"} ELSE {})
    \cup (IF t.sub_boot # Absent THEN {"boot.bin"} ELSE {})

\* shutil.move of the files `moved` from the nested directory into "vexos"
move(t, moved) ==
    [t EXCEPT !.manifest = IF "manifest.json" \in moved
                           THEN t.sub_manifest ELSE @,
              !.sub_manifest = IF "manifest.json" \in moved THEN Absent ELSE @,
              !.boot = IF "boot.bin" \in moved THEN t.sub_boot ELSE @,
              !.sub_boot = IF "boot.bin" \in moved THEN Absent ELSE @]

\* shutil.move raises when the destination already exists
collides(t, name) ==
    \/ name = "manifest.json" /\ t.manifest # Absent
    \/ name = "boot.bin" /\ t.boot # Absent

\* lines 57-61: os.listdir("vexos")[0] is any entry; the files of the nested
\* directory are moved in any order, each move may raise, and the emptied
\* directory is removed last
flatten(t) ==
    LET files == listdir_sub(t)
        movable == {m \in SUBSET files : \A name \in m : ~collides(t, name)}
    IN  {[t |-> t, raised |-> TRUE, fault |-> FALSE] :
            vexos_subfolder \in listdir(t) \ {"subfolder"}}
        \cup {[t |-> move(t, m), raised |-> TRUE, fault |-> TRUE] :
                m \in movable}
        \cup {[t |-> move(t, m), raised |-> TRUE, fault |-> FALSE] :
                m \in {x \in movable :
                         \E name \in files \ x : collides(t, name)}}
        \cup {[t |-> [move(t, m) EXCEPT !.sub = FALSE], raised |-> FALSE,
               fault |-> FALSE] :
                m \in movable \cap {files}}

\* extract_vexos mutated to unpack without deleting the old files
extract_vexos_over_old_files(a, t) ==
    UNION {
      IF u.raised
      THEN {[t |-> u.t, raised |-> TRUE, fault |-> a.kind = "zip"]}
      ELSE flatten(u.t) :
        u \in unpack_archive(a, t)}

\* extract_vexos: wipe (OSError swallowed), unpack, flatten; fault tells
\* whether a call failed on the disk rather than on what it found there
extract_vexos(a, t) ==
    UNION {
      UNION {
        IF u.raised
        THEN {[t |-> u.t, raised |-> TRUE,
               fault |-> (w.raised /\ t.exists) \/ a.kind = "zip"]}
        ELSE {[f EXCEPT !.fault = @ \/ (w.raised /\ t.exists)] :
                f \in flatten(u.t)} :
          u \in unpack_archive(a, w.t)} :
        w \in rmtree(t)}

-----------------------------------------------------------------------------
(* The command line *)

OptF == <<"-", "f">>
OptForce == <<"-", "-", "f", "o", "r", "c", "e">>
OptV == <<"-", "v">>
OptVersion == <<"-", "-", "v", "e", "r", "s", "i", "o", "n">>
OptH == <<"-", "h">>
OptHelp == <<"-", "-", "h", "e", "l", "p">>

\* sys.argv.index(arg)
Index(args, arg) ==
    CHOOSE i \in 1..Len(args) :
        args[i] = arg /\ \A j \in 1..(i - 1) : args[j] # arg

\* main, lines 273-282: the loop over sys.argv[1:], from position i on
RECURSIVE ParseArgs(_, _, _)
ParseArgs(args, i, st) ==
    IF i > Len(args) \/ st.status # "run" THEN st
    ELSE LET arg == args[i]
         IN  IF arg = OptF \/ arg = OptForce
             THEN ParseArgs(args, i + 1, [st EXCEPT !.force_enabled = TRUE])
             ELSE IF arg = OptV \/ arg = OptVersion
             THEN IF Index(args, arg) + 1 > Len(args)
                  THEN [st EXCEPT !.status = "IndexError"]
                  ELSE ParseArgs(args, i + 1,
                          [st EXCEPT !.version = args[Index(args, arg) + 1],
                                     !.force_enabled = TRUE])
             ELSE IF arg = OptH \/ arg = OptHelp
             THEN [st EXCEPT !.status = "help"]
             ELSE ParseArgs(args, i + 1, st)

ArgVs ==
    {<<>>, <<OptF>>, <<OptH>>, <<OptV>>}
    \cup {<<OptV, tok>> : tok \in ServerTokens \cup MalformedTokens}

\* what the catalog request can give: ConnectionError, or a response text
CatalogResponses ==
    {[raised |-> TRUE, text |-> None]}
    \cup {[raised |-> FALSE, text |-> x] :
            x \in {T_9_0_0_1, T_10_0_0_0, T_short, T_platform}}

\* the disk before the first run: nothing or a firmware tree, whose manifest
\* may have been damaged, and nothing or a leftover download
InitialTargets ==
    {NoTarget}
    \cup {Installed(vexos_to_semver(tok), vexos_to_semver(tok)) :
            tok \in ServerTokens}
    \cup {Installed(m, vexos_to_semver(T_9_0_0_0)) : m \in {BadJson, NoKey}}

InitialArtifacts ==
    {NoArtifact, ErrorBody(T_9_0_0_0), Truncated(T_9_0_0_0)}
    \cup {Archive(tok) : tok \in ServerTokens}

-----------------------------------------------------------------------------
(* The process *)

Init ==
    /\ argv \in ArgVs
    /\ pc = "main"
    /\ force = FALSE
    /\ version = None
    /\ installed_version = None
    /\ compared = FALSE
    /\ outdated = FALSE
    /\ artifact \in InitialArtifacts
    /\ target \in InitialTargets
    /\ outcome = "running"
    /\ error = "none"
    /\ steps = <<>>
    /\ response = "none"
    /\ target0 = target
    /\ artifact0 = artifact
    /\ runs = 1
    /\ faulted = FALSE
    /\ last = [aborted_in_step |-> FALSE, installed |-> None]

\* an uncaught exception ends the process
Raise(e) ==
    /\ pc' = "done"
    /\ outcome' = "abort"
    /\ error' = e

\* return from install_vexos without installing
Return(how) ==
    /\ pc' = "done"
    /\ outcome' = how
    /\ error' = "none"

Goto(label) ==
    /\ pc' = label
    /\ UNCHANGED <<outcome, error>>

\* main, lines 271-285
Main ==
    /\ pc = "main"
    /\ UNCHANGED faulted
    /\ LET st == ParseArgs(argv, 1, [force_enabled |-> FALSE,
                                     version |-> None, status |-> "run"])
       IN  /\ force' = st.force_enabled
           /\ version' = st.version
           /\ IF st.status = "help" THEN Return("help")
              ELSE IF st.status = "IndexError" THEN Raise("IndexError")
              ELSE Goto("get_latest_version")
    /\ UNCHANGED <<argv, installed_version, compared, outdated, artifact,
                   target, steps, response, target0, artifact0, runs, last>>

\* the version lookup mutated to ask the catalog even when a version is given
GetLatestVersionAlways ==
    /\ pc = "get_latest_version"
    /\ \E catalog \in CatalogResponses :
         /\ faulted' = (faulted \/ catalog.raised)
         /\ IF catalog.raised
            THEN Raise("catalog_unavailable") /\ UNCHANGED version
            ELSE IF ~StartsWith(catalog.text, CatalogPrefix)
            THEN Raise("catalog_malformed") /\ UNCHANGED version
            ELSE /\ version' = catalog.text
                 /\ IF vexos_to_semver_raises(catalog.text)
                    THEN Raise("malformed_version")
                    ELSE Goto("get_installed_version")
    /\ UNCHANGED <<argv, force, installed_version, compared, outdated,
                   artifact, target, steps, response, target0, artifact0,
                   runs, last>>

\* install_vexos, lines 200-206, with get_latest_version, lines 65-79
GetLatestVersion ==
    /\ pc = "get_latest_version"
    /\ IF version = None
       THEN \E catalog \in CatalogResponses :
              /\ faulted' = (faulted \/ catalog.raised)
              /\ IF catalog.raised
                 THEN Raise("catalog_unavailable") /\ UNCHANGED version
                 ELSE IF ~StartsWith(catalog.text, CatalogPrefix)
                 THEN Raise("catalog_malformed") /\ UNCHANGED version
                 ELSE /\ version' = catalog.text
                      /\ IF vexos_to_semver_raises(catalog.text)
                         THEN Raise("malformed_version")
                         ELSE Goto("get_installed_version")
       ELSE Goto("get_installed_version") /\ UNCHANGED <<version, faulted>>
    /\ UNCHANGED <<argv, force, installed_version, compared, outdated,
                   artifact, target, steps, response, target0, artifact0,
                   runs, last>>

\* install_vexos, lines 208-212, with get_installed_version, lines 138-162
GetInstalledVersion ==
    /\ pc = "get_installed_version"
    /\ UNCHANGED faulted
    /\ IF ~target.exists \/ target.manifest = Absent
       THEN installed_version' = None /\ Goto("check_outdated")
       ELSE IF target.manifest \in {BadJson, NoKey}
       THEN Raise("manifest_unreadable") /\ UNCHANGED installed_version
       ELSE installed_version' = target.manifest /\ Goto("check_outdated")
    /\ UNCHANGED <<argv, force, version, compared, outdated, artifact,
                   target, steps, response, target0, artifact0, runs, last>>

\* install_vexos, lines 214-225
CheckOutdated ==
    /\ pc = "check_outdated"
    /\ UNCHANGED faulted
    /\ IF installed_version # None
       THEN IF vexos_to_semver_raises(version)
            THEN Raise("malformed_version") /\ UNCHANGED <<compared, outdated>>
            ELSE /\ compared' = TRUE
                 /\ outdated' = is_outdated(installed_version, version)
                 /\ IF ~outdated' /\ ~force
                    THEN Return("skip_up_to_date")
                    ELSE Goto("check_conflict")
       ELSE Goto("check_conflict") /\ UNCHANGED <<compared, outdated>>
    /\ UNCHANGED <<argv, force, version, installed_version, artifact, target,
                   steps, response, target0, artifact0, runs, last>>

\* package_already_downloaded, lines 165-174
package_already_downloaded == artifact.kind # "none"

\* the conflict check mutated to resolve the conflict without asking for force
CheckConflictIgnoringForce ==
    /\ pc = "check_conflict"
    /\ UNCHANGED faulted
    /\ IF package_already_downloaded
       THEN Goto("resolve_conflicts")
       ELSE Goto("download_vexos")
    /\ UNCHANGED <<argv, force, version, installed_version, compared,
                   outdated, artifact, target, steps, response, target0,
                   artifact0, runs, faulted, last>>

\* install_vexos, lines 227-235
CheckConflict ==
    /\ pc = "check_conflict"
    /\ UNCHANGED faulted
    /\ IF package_already_downloaded
       THEN IF ~force THEN Return("skip_conflict")
            ELSE Goto("resolve_conflicts")
       ELSE Goto("download_vexos")
    /\ UNCHANGED <<argv, force, version, installed_version, compared,
                   outdated, artifact, target, steps, response, target0,
                   artifact0, runs, faulted, last>>

\* os.remove("vexos.vexos"): the file it can leave and whether it raised OSError
os_remove(a) ==
    IF a.kind = "none"
    THEN {[a |-> a, raised |-> TRUE]}
    ELSE {[a |-> NoArtifact, raised |-> FALSE], [a |-> a, raised |-> TRUE]}

\* resolve_conflicts, lines 176-188: both OSErrors are swallowed
ResolveConflicts ==
    /\ pc = "resolve_conflicts"
    /\ \E r \in os_remove(artifact), w \in rmtree(target) :
         /\ artifact' = r.a
         /\ target' = w.t
         /\ faulted' = (faulted \/ r.raised \/ (w.raised /\ target.exists))
    /\ steps' = Append(steps, "resolve_conflicts")
    /\ Goto("download_vexos")
    /\ UNCHANGED <<argv, force, version, installed_version, compared,
                   outdated, response, target0, artifact0, runs, last>>

\* what requests.get can give for a token: an exception, a success response
\* carrying the archive, or a non-success response carrying an error body
Responses(tok) ==
    {"transport_error", "non_success"}
    \cup (IF tok \in ServerTokens THEN {"ok"} ELSE {})

\* the download mutated to open vexos.vexos for writing before it fetches
DownloadVexosOpeningFirst ==
    /\ pc = "download_vexos"
    /\ steps' = Append(steps, "download_vexos")
    /\ \E r \in Responses(version) :
         /\ response' = r
         /\ IF r = "transport_error"
            THEN /\ Raise("download_failed")
                 /\ artifact' = Truncated(version)
                 /\ faulted' = TRUE
            ELSE LET content == IF r = "ok" THEN Archive(version)
                                ELSE ErrorBody(version)
                 IN  \/ /\ artifact' = content
                        /\ faulted' = (faulted \/ r # "ok")
                        /\ Goto("extract_vexos")
                     \/ /\ artifact' = Truncated(version)
                        /\ faulted' = TRUE
                        /\ Raise("save_failed")
    /\ UNCHANGED <<argv, force, version, installed_version, compared,
                   outdated, target, target0, artifact0, runs, last>>

\* the download mutated to try again after a transport error
DownloadVexosRetrying ==
    /\ pc = "download_vexos"
    /\ steps' = Append(steps, "download_vexos")
    /\ \E r \in Responses(version) :
         /\ response' = r
         /\ IF r = "transport_error"
            THEN /\ Goto("download_vexos")
                 /\ UNCHANGED artifact
                 /\ faulted' = TRUE
            ELSE LET content == IF r = "ok" THEN Archive(version)
                                ELSE ErrorBody(version)
                 IN  \/ /\ artifact' = content
                        /\ faulted' = (faulted \/ r # "ok")
                        /\ Goto("extract_vexos")
                     \/ /\ artifact' \in {artifact, Truncated(version)}
                        /\ faulted' = TRUE
                        /\ Raise("save_failed")
    /\ UNCHANGED <<argv, force, version, installed_version, compared,
                   outdated, target, target0, artifact0, runs, last>>

\* the download mutated to delete the old files before it fetches
DownloadVexosWipingFirst ==
    /\ pc = "download_vexos"
    /\ steps' = Append(steps, "download_vexos")
    /\ \E w \in rmtree(target) : target' = w.t
    /\ \E r \in Responses(version) :
         /\ response' = r
         /\ IF r = "transport_error"
            THEN /\ Raise("download_failed")
                 /\ UNCHANGED artifact
                 /\ faulted' = TRUE
            ELSE LET content == IF r = "ok" THEN Archive(version)
                                ELSE ErrorBody(version)
                 IN  \/ /\ artifact' = content
                        /\ faulted' = (faulted \/ r # "ok")
                        /\ Goto("extract_vexos")
                     \/ /\ artifact' \in {artifact, Truncated(version)}
                        /\ faulted' = TRUE
                        /\ Raise("save_failed")
    /\ UNCHANGED <<argv, force, version, installed_version, compared,
                   outdated, target0, artifact0, runs, last>>

\* download_vexos, lines 13-35: the response body is written whatever the
\* status of the response
DownloadVexos ==
    /\ pc = "download_vexos"
    /\ steps' = Append(steps, "download_vexos")
    /\ \E r \in Responses(version) :
         /\ response' = r
         /\ IF r = "transport_error"
            THEN /\ Raise("download_failed")
                 /\ UNCHANGED artifact
                 /\ faulted' = TRUE
            ELSE LET content == IF r = "ok" THEN Archive(version)
                                ELSE ErrorBody(version)
                 IN  \/ /\ artifact' = content
                        /\ faulted' = (faulted \/ r # "ok")
                        /\ Goto("extract_vexos")
                     \/ /\ artifact' \in {artifact, Truncated(version)}
                        /\ faulted' = TRUE
                        /\ Raise("save_failed")
    /\ UNCHANGED <<argv, force, version, installed_version, compared,
                   outdated, target, target0, artifact0, runs, last>>

\* install_vexos, lines 243-246, with extract_vexos, lines 37-61
ExtractVexos ==
    /\ pc = "extract_vexos"
    /\ steps' = Append(steps, "extract_vexos")
    /\ \E x \in extract_vexos(artifact, target) :
         /\ target' = x.t
         /\ faulted' = (faulted \/ x.fault)
         /\ IF x.raised THEN Raise("extract_failed") ELSE Goto("cleanup")
    /\ UNCHANGED <<argv, force, version, installed_version, compared,
                   outdated, artifact, response, target0, artifact0, runs, last>>

\* the cleanup mutated to swallow the OSError of os.remove
CleanupBestEffort ==
    /\ pc = "cleanup"
    /\ steps' = Append(steps, "cleanup")
    /\ \E r \in os_remove(artifact) :
         /\ artifact' = r.a
         /\ faulted' = (faulted \/ r.raised)
    /\ Goto("summary")
    /\ UNCHANGED <<argv, force, version, installed_version, compared,
                   outdated, target, response, target0, artifact0, runs, last>>

\* install_vexos, lines 248-251: os.remove is not guarded
Cleanup ==
    /\ pc = "cleanup"
    /\ steps' = Append(steps, "cleanup")
    /\ \E r \in os_remove(artifact) :
         /\ artifact' = r.a
         /\ faulted' = (faulted \/ r.raised)
         /\ IF r.raised THEN Raise("cleanup_failed") ELSE Goto("summary")
    /\ UNCHANGED <<argv, force, version, installed_version, compared,
                   outdated, target, response, target0, artifact0, runs, last>>

\* install_vexos, lines 253-259
Summary ==
    /\ pc = "summary"
    /\ UNCHANGED faulted
    /\ steps' = Append(steps, "summary")
    /\ IF vexos_to_semver_raises(version)
       THEN Raise("malformed_version")
       ELSE Return("success")
    /\ UNCHANGED <<argv, force, version, installed_version, compared,
                   outdated, artifact, target, response, target0, artifact0,
                   runs, last>>

\* the step an error label belongs to
StepOf(e) ==
    CASE e \in {"download_failed", "save_failed"} -> "download_vexos"
      [] e = "extract_failed" -> "extract_vexos"
      [] e = "cleanup_failed" -> "cleanup"
      [] OTHER -> "none"

\* the user invokes the program again, on the disk the last run left
NextRun ==
    /\ pc = "done"
    /\ runs < MaxRuns
    /\ runs' = runs + 1
    /\ argv' \in ArgVs
    /\ pc' = "main"
    /\ force' = FALSE
    /\ version' = None
    /\ installed_version' = None
    /\ compared' = FALSE
    /\ outdated' = FALSE
    /\ outcome' = "running"
    /\ error' = "none"
    /\ steps' = <<>>
    /\ response' = "none"
    /\ target0' = target
    /\ artifact0' = artifact
    /\ faulted' = FALSE
    /\ last' = [aborted_in_step |-> outcome = "abort" /\ StepOf(error) # "none",
                installed |-> IF outcome = "success" THEN version ELSE None]
    /\ UNCHANGED <<artifact, target>>

Next ==
    \/ Main
    \/ GetLatestVersion
    \/ GetInstalledVersion
    \/ CheckOutdated
    \/ CheckConflict
    \/ ResolveConflicts
    \/ DownloadVexos
    \/ ExtractVexos
    \/ Cleanup
    \/ Summary
    \/ NextRun

Spec == Init /\ [][Next]_vars

-----------------------------------------------------------------------------
(* Vocabulary of the claims *)

Digits == {"0", "1", "2", "3", "4", "5", "6", "7", "8", "9"}

IsNumber(s) == s # <<>> /\ \A i \in 1..Len(s) : s[i] \in Digits

RECURSIVE ToInt(_)
ToInt(s) ==
    IF s = <<>> THEN 0
    ELSE ToInt(SubSeq(s, 1, Len(s) - 1)) * 10 + (Ord(s[Len(s)]) - Ord("0"))

\* a token of six fields, the two literals first, four numbers after them
WellFormed(tok) ==
    LET f == Split(tok, "_")
    IN  /\ Len(f) = 6
        /\ f[1] = VEXOS
        /\ f[2] = V5
        /\ \A i \in 3..6 : IsNumber(f[i])

\* the 4-tuple (major, minor, patch, build) of a dotted version
Tuple(dotted) == LET f == Split(dotted, ".") IN [i \in 1..4 |-> ToInt(f[i])]

\* strictly smaller under lexicographic comparison of the integers
TupleLess(a, b) ==
    \E i \in 1..4 : a[i] < b[i] /\ \A j \in 1..(i - 1) : a[j] = b[j]

\* what get_installed_version would return on the tree t (None when the run
\* carries on without an installed version)
Readable(t) ==
    IF ~t.exists \/ t.manifest \in {Absent, BadJson, NoKey} THEN None
    ELSE t.manifest

Skipped == outcome \in {"skip_up_to_date", "skip_conflict"}

\* the process got as far as install_vexos and has ended
InstallEnded ==
    pc = "done" /\ outcome # "help" /\ error # "IndexError"

Entered(step) == \E i \in 1..Len(steps) : steps[i] = step

-----------------------------------------------------------------------------
(* Claims *)

\* C1: is_outdated(installed, candidate) is true iff the installed 4-tuple is
\* strictly smaller than the candidate's, each component compared as an
\* integer (9 is older than 10).
C1_OutdatedIffNumericallyOlder ==
    (compared /\ WellFormed(version))
        => (outdated <=> TupleLess(Tuple(installed_version),
                                   Tuple(vexos_to_semver(version))))

\* C2: a run that aborts at conflict resolution, fetch or extract leaves the
\* install target and its manifest exactly as they were when it started.
C2_AbortLeavesTargetUntouched ==
    (pc = "done" /\ outcome = "abort"
        /\ error \in {"download_failed", "save_failed", "extract_failed"})
        => target = target0

\* C2, amended: a run that aborts before it entered conflict resolution or
\* the extract step leaves the install target and its manifest exactly as
\* they were when it started.
C2_AbortBeforeWipeLeavesTargetUntouched ==
    (pc = "done" /\ outcome = "abort"
        /\ ~Entered("resolve_conflicts") /\ ~Entered("extract_vexos"))
        => target = target0

C2_Witness ==
    /\ pc = "done" /\ outcome = "abort" /\ error = "download_failed"
    /\ ~Entered("resolve_conflicts")
    /\ target0.exists /\ target = target0

\* C3: after a run failed inside the extract step, get_installed_version
\* gives no installed version or the one installed before the run, never the
\* version of the failed install.
C3_FailedExtractLeavesNoNewManifest ==
    (pc = "done" /\ outcome = "abort" /\ error = "extract_failed")
        => Readable(target) \in {None, Readable(target0)}

\* C4: a run that completes successfully ends with the install target
\* populated, its manifest at the rendered target version, and no download
\* artifact.
C4_SuccessInstallsAndCleansUp ==
    outcome = "success"
        => /\ target = Installed(vexos_to_semver(version),
                                 vexos_to_semver(version))
           /\ artifact = NoArtifact

C4_Witness ==
    /\ outcome = "success"
    /\ target0.exists /\ artifact0 # NoArtifact
    /\ Readable(target0) # vexos_to_semver(version)

C6_NotNewerWithoutForceSkips ==
    (InstallEnded /\ installed_version # None /\ WellFormed(version)
        /\ ~TupleLess(Tuple(installed_version),
                      Tuple(vexos_to_semver(version)))
        /\ ~force)
        => /\ Skipped
           /\ steps = <<>>
           /\ artifact = artifact0 /\ target = target0

\* C7: with force true and a well-formed target version the run is never
\* skipped and reaches the fetch step.
C7_ForceReachesFetch ==
    (InstallEnded /\ force /\ WellFormed(version))
        => ~Skipped /\ Entered("download_vexos")

\* C8: with an artifact present and force true, conflict resolution runs
\* before the fetch step, and the fetch step never starts with the stale
\* artifact in place.
C8_ResolveClearsArtifactBeforeFetch ==
    /\ (artifact0 # NoArtifact /\ force /\ Entered("download_vexos"))
          => steps[1] = "resolve_conflicts"
    /\ pc = "download_vexos" => artifact = NoArtifact

\* C9: a failure to delete the artifact in the cleanup step does not abort
\* the run: a run that reached cleanup ends with the success summary.
C9_CleanupFailureStillSucceeds ==
    (pc = "done" /\ Entered("cleanup")) => outcome = "success"

\* C10: after a non-success response or a transport error the run aborts at
\* the fetch step and never enters the extract step.
C10_FailedFetchNeverExtracts ==
    response \in {"non_success", "transport_error"}
        => /\ ~Entered("extract_vexos")
           /\ pc = "done" => outcome = "abort"

\* the token given with -v, or None
Requested ==
    ParseArgs(argv, 1, [force_enabled |-> FALSE, version |-> None,
                        status |-> "run"]).version

IsPrefix(p, q) == Len(p) <= Len(q) /\ SubSeq(q, 1, Len(p)) = p

\* C11: once the fetch step has ended, whether it succeeded or failed,
\* vexos.vexos holds a complete file or does not exist; a partially written
\* or empty file is never left behind.
C11_FetchLeavesFullArtifactOrNone ==
    (Entered("download_vexos") /\ pc # "download_vexos")
        => artifact.kind # "partial"

\* C13: vexos_to_semver returns a dotted version only for tokens of six
\* fields, the two literals first and four non-negative integers after them,
\* and fails for every other token.
C13_SemverOnlyForWellFormedTokens ==
    /\ compared => WellFormed(version)
    /\ outcome = "success" => WellFormed(version)
    /\ error = "malformed_version" => ~WellFormed(version)

\* C14: with no version requested the catalog is fetched before anything
\* else and a catalog failure aborts the run before any read or mutation of
\* the artifact or the install target; with a version requested the catalog
\* is never consulted and the token is used as given.
C14_CatalogFirstOrNever ==
    /\ (pc # "main" /\ version = None)
          => /\ pc \in {"get_latest_version", "done"}
             /\ installed_version = None /\ ~compared /\ steps = <<>>
             /\ artifact = artifact0 /\ target = target0
    /\ error \in {"catalog_unavailable", "catalog_malformed"}
          => version = None /\ Requested = None
    /\ (pc # "main" /\ Requested # None)
          => /\ version = Requested
             /\ error \notin {"catalog_unavailable", "catalog_malformed"}

C14_Witness ==
    /\ pc = "done" /\ error = "catalog_unavailable"
    /\ target0.exists /\ artifact0 # NoArtifact

C16_CleanFetchFailureChangesNothing ==
    (artifact0 = NoArtifact /\ response = "transport_error")
        => /\ pc = "done" /\ outcome = "abort"
           /\ steps = <<"download_vexos">>
           /\ target = target0 /\ artifact = NoArtifact

C16_Witness ==
    /\ artifact0 = NoArtifact /\ response = "transport_error"
    /\ target0.exists /\ installed_version # None

\* C18: reading the installed manifest never aborts a run: with the manifest
\* absent or unreadable the run carries on without an installed version.
C18_ManifestReadNeverAborts ==
    (target0.manifest \in {Absent, BadJson, NoKey} /\ InstallEnded
        /\ error \notin {"catalog_unavailable", "catalog_malformed",
                         "malformed_version"})
        => installed_version = None /\ error # "manifest_unreadable"

\* C12: after a run aborted in one of its steps, a following run with force,
\* a well-formed target version and no failing call to the disk or the
\* network completes the install: the target holds the requested version and
\* no artifact is left.
C12_AbortedRunIsRecoverable ==
    (last.aborted_in_step /\ InstallEnded /\ force /\ WellFormed(version)
        /\ ~faulted)
        => /\ outcome = "success"
           /\ target = Installed(vexos_to_semver(version),
                                 vexos_to_semver(version))
           /\ artifact = NoArtifact

C12_Witness ==
    /\ last.aborted_in_step /\ force /\ ~faulted /\ outcome = "success"
    /\ target0.sub /\ artifact0 # NoArtifact

\* with an installed manifest a malformed explicit token ends the run in
\* is_outdated, before the fetch
ExplicitTokenWithManifestFailsBeforeFetch ==
    (Requested # None /\ vexos_to_semver_raises(Requested)
        /\ installed_version # None /\ InstallEnded)
        => error = "malformed_version" /\ ~Entered("download_vexos")

\* C17: a malformed explicit token is reported at the same point relative to
\* the fetch whether or not an installed manifest exists.  With a manifest it
\* is reported before the fetch (ExplicitTokenWithManifestFailsBeforeFetch),
\* so the same point is: no run with such a token enters the fetch step.
C17_MalformedExplicitTokenReportedBeforeFetch ==
    (Requested # None /\ vexos_to_semver_raises(Requested))
        => ~Entered("download_vexos")

\* C19: right after a successful run that installed version V, a run with
\* the same target version V and force false ends as Skip (up to date) and
\* changes neither the install target nor the artifact path.
C19_ReinstallWithoutForceSkips ==
    (last.installed # None /\ version = last.installed /\ ~force
        /\ InstallEnded)
        => /\ outcome = "skip_up_to_date"
           /\ steps = <<>>
           /\ target = target0 /\ artifact = artifact0

C19_Witness ==
    /\ last.installed # None /\ version = last.installed /\ ~force
    /\ outcome = "skip_up_to_date"
    /\ Readable(target) = vexos_to_semver(version)

====
